---- MODULE Spec2Model ----
(***************************************************************************)
(* ALEMCTS: the game-state tree node (ALENode, src/mcts.py), the driver    *)
(* mcts_run with its results log, and the baseline agent                   *)
(* (BaselineAgent, src/baselines.py), over a small deterministic emulator. *)
(*                                                                         *)
(* The emulator (ale_py.ALEInterface) and the search engine (mctslib.MCTS) *)
(* are external libraries.  The emulator is modelled as a deterministic    *)
(* machine over small integers; the search engine as an environment that   *)
(* calls apply_action on nodes of its tree and returns a child of its root.*)
(*                                                                         *)
(* Python values that the code passes around untyped (None, an int, a      *)
(* list) are records [kind, len]; nodes live in an arena (a sequence), a   *)
(* node is its index and parent = 0 stands for None.                       *)
(***************************************************************************)
EXTENDS Integers, Sequences, FiniteSets

\* ---------------------------------------------------------------- bounds
MaxNodes == 4
MaxTurns == 2
EndState == 4
MaxFrameSkip == 2
MaxPlay == 3

\* ------------------------------------------------------- python values
NoneV == [kind |-> "None", len |-> 0]
IntV == [kind |-> "int", len |-> 0]
ListV(k) == [kind |-> "list", len |-> k]

\* list[i]: Python accepts -len .. len-1 and counts negative indices from the end
PyIndexOK(len, i) == -len <= i /\ i < len
PyIndex(seq, i) == IF i >= 0 THEN seq[i + 1] ELSE seq[Len(seq) + i + 1]

Reverse(s) == [i \in 1..Len(s) |-> s[Len(s) + 1 - i]]

\* ------------------------------------------------------------- emulator
ROMs == {"romA", "romB"}
\* interface.getMinimalActionSet(): emulator-native action codes of the ROM
MinimalActionSet(rom) == IF rom = "romA" THEN <<0, 2>> ELSE <<0, 1, 3>>

EmuStart == 0
EmuGameOver(s) == s >= EndState
\* one emulated frame under action code c
EmuFrameState(s, c) == IF EmuGameOver(s) THEN s ELSE s + c + 1
EmuFrameReward(s, c) == IF EmuGameOver(s) THEN 0 ELSE ((s + 2 * c) % 3) - 1

RECURSIVE EmuActState(_, _, _)
\* interface.act(c): the state after the action is held for k frames
EmuActState(s, c, k) ==
    IF k = 0 THEN s ELSE EmuActState(EmuFrameState(s, c), c, k - 1)

RECURSIVE EmuActReward(_, _, _)
\* interface.act(c): the reward summed over the k frames
EmuActReward(s, c, k) ==
    IF k = 0 THEN 0
    ELSE EmuFrameReward(s, c) + EmuActReward(EmuFrameState(s, c), c, k - 1)

\* values a caller may hand over for random_seed, action_weights, opp_actions
Vals == {NoneV, IntV, ListV(0), ListV(3)}
FrameSkips == 1..MaxFrameSkip
\* turn_limit=None of BaselineAgent
NoLimit == -1

VARIABLES
    mode,            \* "start" | "api" | "run" | "baseline"
    pc,              \* position of the client / of mcts_run / of play
    err,             \* the exception that ended the program, or "none"
    interface,       \* ALENode.interface: the shared emulator's state
    frame_skip,      \* the emulator's frame_skip setting
    ale_action_set,  \* ALENode.ale_action_set
    action_set,      \* ALENode.action_set
    action_weights,  \* ALENode.action_weights
    nodes,           \* arena of ALENode objects
    steps,           \* per node: the emulator step that produced it
    last,            \* the last apply_action call and its outcome
    video,           \* frames saved by the last make_video
    videoOf,         \* node make_video was called on (0: none yet)
    turn_limit,      \* args.turn_limit
    turns,           \* search turns completed by mcts_run
    mctsRoot,        \* the search engine's current root
    node,            \* mcts_run's local `node` (0: unbound)
    result,          \* the value mcts_run returned
    rows,            \* rows appended to the results log for this run
    b_limit, b_kind, b_set, b_skip, b_ale, b_i, b_acts, b_frames, b_score,
    b_afterOver

vars == <<mode, pc, err, interface, frame_skip, ale_action_set, action_set,
          action_weights, nodes, steps, last, video, videoOf,
          turn_limit, turns, mctsRoot, node, result, rows,
          b_limit, b_kind, b_set, b_skip, b_ale, b_i, b_acts, b_frames,
          b_score, b_afterOver>>

classVars == <<frame_skip, ale_action_set, action_set, action_weights>>
treeVars == <<nodes, steps, last>>
videoVars == <<video, videoOf>>
runVars == <<turn_limit, turns, mctsRoot, node, result, rows>>
baseVars == <<b_limit, b_kind, b_set, b_skip, b_ale, b_i, b_acts, b_frames,
              b_score, b_afterOver>>

NoCall == [p |-> 0, a |-> 0, code |-> -1, raised |-> "none", child |-> 0]
NoStep == [from |-> -1, code |-> -1, reward |-> 0]

Init ==
    /\ mode = "start" /\ pc = "start" /\ err = "none"
    /\ interface = -1 /\ frame_skip = 0
    /\ ale_action_set = <<>> /\ action_set = <<>> /\ action_weights = NoneV
    /\ nodes = <<>> /\ steps = <<>> /\ last = NoCall
    /\ video = <<>> /\ videoOf = 0
    /\ turn_limit = 0 /\ turns = 0 /\ mctsRoot = 0 /\ node = 0
    /\ result = 0 /\ rows = 0
    /\ b_limit = NoLimit /\ b_kind = "noop" /\ b_set = <<>> /\ b_skip = 0
    /\ b_ale = -1 /\ b_i = 0 /\ b_acts = 0 /\ b_frames = <<>> /\ b_score = 0
    /\ b_afterOver = FALSE

\* ------------------------------------------------------------- ALENode

\* setup_interface(rom_path, frame_skip, action_weights, opp_actions, random_seed):
\* the class attributes it leaves, or the exception setInt raises on a seed
\* that is no integer
setup_interface(rom, fs, aw, opp, seed) ==
    IF seed.kind = "list"
    THEN [err |-> "TypeError", interface |-> -1, frame_skip |-> 0,
          ale_action_set |-> <<>>, action_set |-> <<>>, action_weights |-> NoneV]
    ELSE [err |-> "none", interface |-> EmuStart, frame_skip |-> fs,
          ale_action_set |-> MinimalActionSet(rom),
          action_set |-> [i \in 1..Len(MinimalActionSet(rom)) |-> i - 1],
          action_weights |-> aw]

\* root(): the node of the emulator's current state
root(s) == [state |-> s, parent |-> 0, evaluation |-> 0, action_id |-> 0,
            is_terminal |-> EmuGameOver(s)]

\* sync that forgets to restore: the emulator stays where the last call left it
syncSkipped(p) == interface

\* parent.sync(): the emulator state after restoreState(parent.state)
sync(p) == nodes[p].state

\* cls.action_set[action_id]: the code from_parent hands to interface.act
ActCode(a) == PyIndex(action_set, a)

\* a score that takes the step's reward alone
ChildScoreStepOnly(parentScore, ext_reward) == ext_reward

\* the score from_parent gives the child
ChildScore(parentScore, ext_reward) == parentScore + ext_reward

\* get_legal_actions()
get_legal_actions == action_set

\* from_parent(parent, action_id): the emulator state it leaves, the child
\* (when it returns) and the exception (when it raises)
from_parent(p, a) ==
    LET s0 == sync(p) IN
    IF ~PyIndexOK(Len(action_set), a)
    THEN [err |-> "IndexError", interface |-> s0, made |-> FALSE,
          child |-> root(s0), step |-> NoStep]
    ELSE
      LET code == ActCode(a)
          ext_reward == EmuActReward(s0, code, frame_skip)
          new_state == EmuActState(s0, code, frame_skip)
          child == [state |-> new_state, parent |-> p,
                    evaluation |-> ChildScore(nodes[p].evaluation, ext_reward),
                    action_id |-> a, is_terminal |-> EmuGameOver(new_state)]
          step == [from |-> s0, code |-> code, reward |-> ext_reward]
          werr == IF action_weights.kind # "list" THEN "TypeError"
                  ELSE IF ~PyIndexOK(action_weights.len, a) THEN "IndexError"
                  ELSE "none"
      IN [err |-> werr, interface |-> new_state, made |-> werr = "none",
          child |-> child, step |-> step]

\* apply_action(action_id) on node p, as a step of the program
ApplyAction(p, a) ==
    LET r == from_parent(p, a) IN
    /\ interface' = r.interface
    /\ err' = r.err
    /\ nodes' = IF r.made THEN Append(nodes, r.child) ELSE nodes
    /\ steps' = IF r.made THEN Append(steps, r.step) ELSE steps
    /\ last' = [p |-> p, a |-> a, code |-> r.step.code, raised |-> r.err,
                child |-> IF r.made THEN Len(nodes) + 1 ELSE 0]

RECURSIVE WalkUp(_)
\* the loop of get_history: the nodes from n upward that have a parent
WalkUp(n) == IF nodes[n].parent # 0 THEN <<n>> \o WalkUp(nodes[n].parent) ELSE <<>>

get_history(n) == Reverse(WalkUp(n))

\* the frames make_video's loop walks through: frame i replays from
\* history[i] the action_id recorded in history[i+1]
VideoFrames(h) ==
    [i \in 1..(Len(h) - 1) |->
        [idx |-> i - 1, from |-> h[i], to |-> h[i + 1],
         code |-> nodes[h[i + 1]].action_id]]

\* make_video(video_path) on node n, as a step of the program.  What the
\* emulator does with a negative action code is not fixed by the code: it
\* either refuses it (the call raises) or emulates it like any other code.
MakeVideo(n) ==
    LET h == get_history(n)
        f == VideoFrames(h)
        bad == {i \in 1..Len(f) : f[i].code < 0}
        k == CHOOSE i \in bad : \A j \in bad : i <= j
    IN /\ videoOf' = n
       /\ \E refuses \in BOOLEAN :
            IF bad = {} \/ ~refuses
            THEN /\ video' = f
                 /\ err' = "none"
                 /\ interface' = IF Len(f) = 0 THEN interface
                                 ELSE EmuActState(sync(f[Len(f)].from),
                                                  f[Len(f)].code, frame_skip)
            ELSE /\ video' = SubSeq(f, 1, k - 1)
                 /\ err' = "TypeError"
                 /\ interface' = sync(f[k].from)

\* ------------------------------------------------- direct use of ALENode

ApiSetup ==
    /\ mode = "start"
    /\ \E rom \in ROMs, fs \in FrameSkips, aw \in Vals, opp \in Vals, seed \in Vals :
         LET r == setup_interface(rom, fs, aw, opp, seed) IN
         /\ interface' = r.interface /\ frame_skip' = r.frame_skip
         /\ ale_action_set' = r.ale_action_set /\ action_set' = r.action_set
         /\ action_weights' = r.action_weights /\ err' = r.err
         /\ pc' = IF r.err = "none" THEN "ready" ELSE "error"
    /\ mode' = "api"
    /\ UNCHANGED <<treeVars, videoVars, runVars, baseVars>>

ApiRoot ==
    /\ mode = "api" /\ pc = "ready"
    /\ nodes' = <<root(interface)>> /\ steps' = <<NoStep>>
    /\ pc' = "tree"
    /\ UNCHANGED <<mode, err, interface, classVars, last, videoVars, runVars, baseVars>>

ApiApply ==
    /\ mode = "api" /\ pc = "tree" /\ Len(nodes) < MaxNodes
    /\ \E p \in 1..Len(nodes), a \in (-Len(action_set) - 1)..Len(action_set) :
         ApplyAction(p, a)
    /\ pc' = IF err' = "none" THEN "tree" ELSE "error"
    /\ UNCHANGED <<mode, classVars, videoVars, runVars, baseVars>>

ApiVideo ==
    /\ mode = "api" /\ pc = "tree"
    /\ \E n \in 1..Len(nodes) : MakeVideo(n)
    /\ pc' = IF err' = "none" THEN "rendered" ELSE "error"
    /\ UNCHANGED <<mode, classVars, treeVars, runVars, baseVars>>

\* ------------------------------------------------------------- mcts_run

RECURSIVE IsUnder(_, _)
\* n is r or a descendant of r
IsUnder(n, r) == n = r \/ (nodes[n].parent # 0 /\ IsUnder(nodes[n].parent, r))

\* mcts_run up to its loop: setup_interface with the run's parameters in the
\* order the call gives them (random_seed, action_weights, opp_actions land
\* in action_weights, opp_actions, random_seed), root(), MCTS(root); with a
\* turn limit of 0 the loop body never binds `node` and line 161 raises
McRunStart ==
    /\ mode = "start"
    /\ \E rom \in ROMs, fs \in FrameSkips, N \in 0..MaxTurns,
          random_seed \in Vals, a_weights \in Vals, opp_actions \in Vals :
         LET r == setup_interface(rom, fs, random_seed, a_weights, opp_actions) IN
         /\ interface' = r.interface /\ frame_skip' = r.frame_skip
         /\ ale_action_set' = r.ale_action_set /\ action_set' = r.action_set
         /\ action_weights' = r.action_weights
         /\ turn_limit' = N
         /\ IF r.err # "none"
            THEN /\ err' = r.err /\ pc' = "error"
                 /\ UNCHANGED <<nodes, steps, mctsRoot>>
            ELSE /\ nodes' = <<root(r.interface)>> /\ steps' = <<NoStep>>
                 /\ mctsRoot' = 1
                 /\ IF N = 0
                    THEN err' = "NameError" /\ pc' = "error"
                    ELSE err' = "none" /\ pc' = "search"
    /\ mode' = "run"
    /\ UNCHANGED <<last, videoVars, turns, node, result, rows, baseVars>>

\* the search engine, inside search_using_cpu_time, expands a node of its tree
SearchExpand ==
    /\ mode = "run" /\ pc = "search" /\ Len(nodes) < MaxNodes
    /\ \E p \in 1..Len(nodes), k \in 1..Len(get_legal_actions) :
         /\ IsUnder(p, mctsRoot)
         /\ ApplyAction(p, get_legal_actions[k])
    /\ pc' = IF err' = "none" THEN "search" ELSE "error"
    /\ UNCHANGED <<mode, classVars, videoVars, runVars, baseVars>>

\* one pass of the loop of mcts_run: the search returns a child of the
\* engine's root, choose_best_node commits to it, and the loop goes on unless
\* the node is terminal or the turn limit is used up
SearchReturn ==
    /\ mode = "run" /\ pc = "search"
    /\ \E c \in 1..Len(nodes) :
         /\ nodes[c].parent = mctsRoot
         /\ node' = c /\ mctsRoot' = c
         /\ turns' = turns + 1
         /\ pc' = IF nodes[c].is_terminal \/ turns + 1 >= turn_limit
                  THEN "video" ELSE "search"
    /\ UNCHANGED <<mode, err, interface, classVars, treeVars, videoVars,
                   turn_limit, result, rows, baseVars>>

\* node.state.make_video(args.video_path); return node.state.evaluation()
McRunFinish ==
    /\ mode = "run" /\ pc = "video"
    /\ MakeVideo(node)
    /\ pc' = IF err' = "none" THEN "returned" ELSE "error"
    /\ result' = IF err' = "none" THEN nodes[node].evaluation ELSE result
    /\ UNCHANGED <<mode, classVars, treeVars, turn_limit, turns, mctsRoot, node,
                   rows, baseVars>>

\* the sweep loop: save_to_csv appends the run's row
SaveRow ==
    /\ mode = "run" /\ pc = "returned"
    /\ rows' = rows + 1
    /\ pc' = "done"
    /\ UNCHANGED <<mode, err, interface, classVars, treeVars, videoVars,
                   turn_limit, turns, mctsRoot, node, result, baseVars>>

\* -------------------------------------------------------- BaselineAgent

\* BaselineAgent(rom_path, baseline, turn_limit, frame_skip, video_path);
\* frame_skip 0 stands for None as well: both leave the emulator's default
BaselineInit ==
    /\ mode = "start"
    /\ \E rom \in ROMs, kind \in {"noop", "random"},
          limit \in {NoLimit} \cup (0..MaxPlay), fs \in 0..MaxFrameSkip :
         /\ b_limit' = limit /\ b_kind' = kind
         /\ b_set' = MinimalActionSet(rom)
         /\ b_skip' = IF fs # 0 THEN fs ELSE 1
    /\ b_ale' = EmuStart
    /\ mode' = "baseline" /\ pc' = "play"
    /\ UNCHANGED <<err, interface, classVars, treeVars, videoVars, runVars,
                   b_i, b_acts, b_frames, b_score, b_afterOver>>

\* `self._turn_limit`, used as a condition
Truthy(limit) == limit # NoLimit /\ limit # 0

\* total_turns is exhausted: range(turn_limit) when the limit is truthy,
\* count() otherwise
TurnsExhausted(limit, i) == Truthy(limit) /\ i >= limit

\* one pass of the loop of play
PlayStep ==
    /\ mode = "baseline" /\ pc = "play"
    /\ ~TurnsExhausted(b_limit, b_i)
    /\ ~EmuGameOver(b_ale)
    /\ \E k \in 1..Len(b_set) :
         LET action == IF b_kind = "noop" THEN 0 ELSE b_set[k] IN
         /\ b_score' = b_score + EmuActReward(b_ale, action, b_skip)
         /\ b_ale' = EmuActState(b_ale, action, b_skip)
    /\ b_afterOver' = (b_afterOver \/ EmuGameOver(b_ale))
    /\ b_acts' = b_acts + 1
    /\ b_frames' = Append(b_frames, b_i)
    /\ b_i' = b_i + 1
    /\ UNCHANGED <<mode, pc, err, interface, classVars, treeVars, videoVars,
                   runVars, b_limit, b_kind, b_set, b_skip>>

\* the loop of play ends (turns used up, or game over) and the video is encoded
PlayEnd ==
    /\ mode = "baseline" /\ pc = "play"
    /\ TurnsExhausted(b_limit, b_i) \/ EmuGameOver(b_ale)
    /\ pc' = "played"
    /\ UNCHANGED <<mode, err, interface, classVars, treeVars, videoVars,
                   runVars, baseVars>>

Next ==
    \/ ApiSetup \/ ApiRoot \/ ApiApply \/ ApiVideo
    \/ McRunStart \/ SearchExpand \/ SearchReturn \/ McRunFinish \/ SaveRow
    \/ BaselineInit \/ PlayStep \/ PlayEnd

Spec == Init /\ [][Next]_vars

\* --------------------------------------------------------------- claims

Children == {n \in 1..Len(nodes) : nodes[n].parent # 0}
InRange(a) == 0 <= a /\ a < Len(ale_action_set)

RECURSIVE Depth(_)
\* number of transitions from the root to n
Depth(n) == IF nodes[n].parent = 0 THEN 0 ELSE 1 + Depth(nodes[n].parent)

RECURSIVE PathReward(_)
\* sum of the rewards the emulator returned along the path from the root to n
PathReward(n) ==
    IF nodes[n].parent = 0 THEN 0 ELSE steps[n].reward + PathReward(nodes[n].parent)

\* C1: every node's cumulative score is the sum of the rewards the emulator
\* returned along its root-to-node path; the root's score is 0 and a child's
\* score is its parent's plus the reward of the step that produced it.
C1_ScoreIsPathSum ==
    \A n \in 1..Len(nodes) :
        /\ nodes[n].evaluation = PathReward(n)
        /\ nodes[n].parent = 0 => nodes[n].evaluation = 0
        /\ nodes[n].parent # 0 =>
             nodes[n].evaluation = nodes[nodes[n].parent].evaluation + steps[n].reward

\* a node two transitions deep whose parent's score and own step reward are
\* both nonzero
C1_Witness ==
    \E n \in Children :
        /\ Depth(n) >= 2
        /\ nodes[nodes[n].parent].evaluation # 0
        /\ steps[n].reward # 0

\* C2: a child is a function of its parent's snapshot and its action_id alone:
\* the step that produced it started from the parent's snapshot whatever the
\* emulator held before, its snapshot, reward and terminal flag are those of
\* one emulator step from there, and two children of the same parent with the
\* same action_id agree on all three.
C2_ExpandFromParentSnapshot ==
    /\ \A n \in Children :
         LET s == nodes[nodes[n].parent].state IN
         /\ steps[n].from = s
         /\ nodes[n].state = EmuActState(s, steps[n].code, frame_skip)
         /\ steps[n].reward = EmuActReward(s, steps[n].code, frame_skip)
         /\ nodes[n].is_terminal = EmuGameOver(nodes[n].state)
    /\ \A m, n \in Children :
         (nodes[m].parent = nodes[n].parent /\ nodes[m].action_id = nodes[n].action_id)
           => /\ nodes[m].state = nodes[n].state
              /\ steps[m].reward = steps[n].reward
              /\ nodes[m].is_terminal = nodes[n].is_terminal

\* the same (parent, action_id) expanded twice with another expansion, which
\* left the emulator in a different state, in between
C2_Witness ==
    \E i, k, j \in Children :
        /\ i < k /\ k < j
        /\ nodes[i].parent = nodes[j].parent
        /\ nodes[i].action_id = nodes[j].action_id
        /\ nodes[k].state # nodes[nodes[j].parent].state
        /\ nodes[k].state # nodes[i].state

\* C3: the code handed to the emulator for action index i, in from_parent and
\* in make_video, is the entry at position i of the minimal action set.
C3_NativeCodeFromTable ==
    /\ \A n \in Children :
         InRange(nodes[n].action_id) =>
             steps[n].code = ale_action_set[nodes[n].action_id + 1]
    /\ \A i \in 1..Len(video) :
         InRange(nodes[video[i].to].action_id) =>
             video[i].code = ale_action_set[nodes[video[i].to].action_id + 1]

\* every action_id on the path from the root to n is an index of the table
PathInRange(n) ==
    \A i \in 1..Len(WalkUp(n)) : InRange(nodes[WalkUp(n)[i]].action_id)

\* C4: make_video on a node k transitions from the root saves exactly k
\* frames, numbered 0..k-1, one per transition of the path in path order
\* (stated for paths whose action ids are indices of the table).
C4_FrameCountIsDepth ==
    (videoOf # 0 /\ err = "none" /\ PathInRange(videoOf)) =>
        /\ Len(video) = Depth(videoOf)
        /\ \A i \in 1..Len(video) :
             /\ video[i].idx = i - 1
             /\ Depth(video[i].to) = i
             /\ nodes[video[i].to].parent = video[i].from

\* C5: get_history(n) is the chain of parent links in root-to-node order: it
\* starts at the root, ends at n, and each element is the parent of the next.
C5_HistoryFromRoot ==
    \A n \in 1..Len(nodes) :
        LET h == get_history(n) IN
        /\ Len(h) >= 1
        /\ nodes[h[1]].parent = 0
        /\ h[Len(h)] = n
        /\ \A i \in 1..(Len(h) - 1) : nodes[h[i + 1]].parent = h[i]

\* C6: for every turn limit N >= 0 a run whose search turns return ends
\* normally after at most N committed moves, and a completed run has returned
\* the final node's score and has exactly one row in the results log.
C6_RunCompletes ==
    mode = "run" =>
        /\ err # "NameError"
        /\ turns <= turn_limit
        /\ pc = "search" => turns < turn_limit /\ ~nodes[mctsRoot].is_terminal
        /\ pc = "done" => rows = 1 /\ result = nodes[node].evaluation

\* C8: apply_action with an action_id outside 0..n-1 raises the index error
\* before anything is handed to the emulator, and creates no child (stated
\* for action weights that cover the index, so that nothing else raises).
C8_OutOfRangeRejected ==
    (/\ last.p # 0 /\ ~InRange(last.a)
     /\ action_weights.kind = "list" /\ PyIndexOK(action_weights.len, last.a)) =>
        /\ last.raised = "IndexError"
        /\ last.code = -1
        /\ last.child = 0

\* C9: in a run set up by mcts_run, apply_action with any action_id of
\* get_legal_actions() returns a child of that node with that action_id.
C9_LegalActionsExpand ==
    (mode = "run" /\ last.p # 0) =>
        /\ last.raised = "none"
        /\ last.child # 0
        /\ nodes[last.child].parent = last.p
        /\ nodes[last.child].action_id = last.a

\* C10: play with an integer turn limit N >= 0 applies at most N actions,
\* applies none once the game is over, and saves one frame per action.
C10_BaselineBounded ==
    mode = "baseline" =>
        /\ b_limit # NoLimit => b_acts <= b_limit
        /\ ~b_afterOver
        /\ Len(b_frames) = b_acts

====
